---------------------------- MODULE Spec2Model ----------------------------
(***************************************************************************)
(* The view-triggered animated Counter of the landing pages                *)
(* (src/unnamed/part_000 lines 65-93, src/src/app/page.tsx lines 62-90).   *)
(*                                                                         *)
(* One mounted Counter instance is modelled together with the two browser  *)
(* facilities it uses: the animation-frame callback list                   *)
(* (requestAnimationFrame / cancelAnimationFrame) and the intersection     *)
(* observer behind useInView(ref, { once: true }).                         *)
(*                                                                         *)
(* The landing page around the Counters (TajaLanding, RajaLanding) is     *)
(* modelled with its navigation links, scroll listener, mobile menu and   *)
(* FAQ items.                                                              *)
(*                                                                         *)
(* Time is in milliseconds.  Frame timestamps are positive integers on a   *)
(* half-second grid; Math.floor(progress * end) is computed exactly on     *)
(* the rational progress = elapsed / (duration * 1000).                    *)
(***************************************************************************)
EXTENDS Integers, FiniteSets, Sequences, TLC

VARIABLES
    end,            \* prop end (the target)
    durationProp,   \* prop duration in seconds: <<d>>, or << >> when not passed
    phase,          \* "committed" (rendered, effects not flushed), "mounted", "unmounted"
    intersecting,   \* environment: the <span> currently intersects the viewport
    isInView,       \* useInView(ref, { once: true })
    count,          \* useState<number>(0): the displayed value
    countNaN,       \* the displayed value is NaN (count is then kept at 0)
    startTime,      \* closure variable `let startTime`: << >> (undefined) or <<t>>
    animationFrame, \* closure variable `let animationFrame`: << >> or <<id>>
    hasCleanup,     \* the current effect run returned a cleanup function
    pending,        \* ids in the browser's list of animation-frame callbacks
    nextId,         \* next handle requestAnimationFrame returns
    now,            \* timestamp of the latest display frame
    propChanges,    \* number of re-renders with changed props so far
    variant,        \* which page's Counter this is: "page.tsx" or "part_000"
    suffix,         \* prop suffix: <<text>>, or << >> when not passed
    sibling,        \* the other Counter instance of the page, or NoSibling
    twin,           \* the page.tsx Counter given the same inputs, or NoTwin
    \* the landing page component (TajaLanding / RajaLanding)
    pagePhase,      \* "committed" (rendered, effects not flushed), "mounted", "unmounted"
    scrollY,        \* window.scrollY
    listeners,      \* handlers registered for the window's 'scroll' event
    scrolled,       \* useState<boolean>(false) of the navigation bar
    mobileMenuOpen, \* useState<boolean>(false) of the mobile menu
    isOpen,         \* useState<boolean>(false) of each FAQItem, by index
    hash,           \* the document's location hash, a text
    \* history variables of the landing page
    menuWriter,     \* the latest event that wrote mobileMenuOpen: "mount", "button", "mobileLink"
    menuParity,     \* odd number of menu-button clicks since mount / mobile link click
    faqParity,      \* by FAQ item: odd number of clicks on its question
    \* history variables (observations only, never read by the actions' guards)
    ticks,          \* number of animate() calls since mount
    runs,           \* number of effect runs that requested a frame
    runTicks,       \* number of animate() calls of the current run
    firstTick,      \* timestamp of the first animate() call of the current run
    lastTick,       \* record of the latest animate() call, or NoTick
    lateTicks,      \* number of animate() calls after the unmount
    crossings,      \* viewport crossings since isInView latched, up to MaxCrossings
    visibleAt       \* value of now when isInView became true

\* The variables no action of this Counter instance writes.
landing == <<pagePhase, scrollY, listeners, scrolled, mobileMenuOpen, isOpen,
             hash, menuWriter, menuParity, faqParity>>

others == <<variant, suffix, sibling, twin, landing>>

vars == <<end, durationProp, phase, intersecting, isInView, count, countNaN,
          startTime, animationFrame, hasCleanup, pending, nextId, now,
          propChanges, ticks, runs, runTicks, firstTick, lastTick, lateTicks,
          crossings, visibleAt, others>>

\* A JavaScript variable that may be undefined: << >> or <<value>>.
Undefined == << >>
Some(v) == <<v>>
Get(o) == o[1]

-----------------------------------------------------------------------------
(* Bounds of the model *)

\* Display frames are FrameMs apart.
FrameMs == 500
\* The visibility report and a change of props happen no later than frame
\* LastStartFrame, the first tick of a run no later than one frame after it,
\* so that every run has HorizonFrames frames left to complete in.
LastStartFrame == 4
\* Number of prop changes explored by SpecProps.
MaxPropChanges == 1
\* The history variable crossings stops counting at MaxCrossings.
MaxCrossings == 2

\* Targets passed as `end`: the two of the page (12847, 284) and small ones.
Ends == {0, 1, 3, 100, 284, 12847}
\* Values of the `duration` prop, in seconds; Undefined = prop not passed.
Durations == {Undefined, Some(1), Some(2)}

-----------------------------------------------------------------------------
(* Program constants *)

DefaultDuration == 2
MsPerSecond == 1000
InitialCount == 0

-----------------------------------------------------------------------------
(* The Counter's pure computations *)

\* Variant: a default of one second.
DurationOfDefaultOne(d) == IF d = Undefined THEN 1 ELSE Get(d)

\* ({ end, duration = 2 }): the default parameter value.
DurationOf(d) == IF d = Undefined THEN DefaultDuration ELSE Get(d)

duration == DurationOf(durationProp)

\* duration * 1000
DurationMs(d) == d * MsPerSecond

\* JavaScript's !startTime: true of undefined and of 0.
Falsy(st) == st = Undefined \/ st = Some(0)

\* Variant: startTime = timestamp on every call.
CaptureStartAlways(st, timestamp) == Some(timestamp)

\* if (!startTime) startTime = timestamp;
CaptureStart(st, timestamp) == IF Falsy(st) THEN Some(timestamp) ELSE st

\* A progress value is the rational num/den with den > 0, or NaN (0/0).
One == [num |-> 1, den |-> 1]
NotANumber == [num |-> 0, den |-> 0]
IsNaN(p) == p.den = 0

\* Variant: no Math.min(..., 1).
ProgressUnclamped(timestamp, st, d) ==
    [num |-> timestamp - st, den |-> DurationMs(d)]

\* Variant: the operands of the subtraction swapped (startTime - timestamp).
ProgressReversed(timestamp, st, d) ==
    IF st - timestamp >= DurationMs(d) THEN One
    ELSE [num |-> st - timestamp, den |-> DurationMs(d)]

\* Math.min((timestamp - startTime) / (duration * 1000), 1), for
\* timestamp >= startTime.  A zero divisor gives NaN (0/0) or Infinity (x/0),
\* and Math.min(Infinity, 1) = 1, Math.min(NaN, 1) = NaN.
Progress(timestamp, st, d) ==
    LET e == timestamp - st
        ms == DurationMs(d)
    IN  IF ms = 0 THEN (IF e = 0 THEN NotANumber ELSE One)
        ELSE LET n == IF ms > 0 THEN e ELSE -e
                 m == IF ms > 0 THEN ms ELSE -ms
             IN  IF n >= m THEN One ELSE [num |-> n, den |-> m]

\* Variant: Math.ceil(progress * end).
CeilProduct(p, e) == -((-(p.num * e)) \div p.den)

\* Variant: Math.trunc(progress * end), rounding toward zero.
TruncProduct(p, e) ==
    IF p.num * e >= 0 THEN (p.num * e) \div p.den
    ELSE -((-(p.num * e)) \div p.den)

\* Math.floor(progress * end) for a progress that is a number.
FloorProduct(p, e) == (p.num * e) \div p.den

\* Variant: if (progress <= 1).
AtMostOne(p) == ~IsNaN(p) /\ p.num <= p.den

\* if (progress < 1): false of NaN.
LessThanOne(p) == ~IsNaN(p) /\ p.num < p.den

-----------------------------------------------------------------------------
(* Rendering.  A text is a sequence of one-character strings. *)

Digits == <<"0", "1", "2", "3", "4", "5", "6", "7", "8", "9">>
\* Grouping separator of the en-US locale.
GroupSeparator == <<",">>

RECURSIVE Decimal(_)
\* The decimal digits of a natural number.
Decimal(n) ==
    IF n < 10 THEN <<Digits[n + 1]>>
    ELSE Decimal(n \div 10) \o <<Digits[(n % 10) + 1]>>

\* A group of exactly three digits.
ThreeDigits(n) ==
    <<Digits[(n \div 100) + 1], Digits[((n \div 10) % 10) + 1], Digits[(n % 10) + 1]>>

RECURSIVE Grouped(_)
\* A natural number with its digits grouped in threes.
Grouped(n) ==
    IF n < 1000 THEN Decimal(n)
    ELSE Grouped(n \div 1000) \o GroupSeparator \o ThreeDigits(n % 1000)

\* count.toLocaleString() in the en-US locale.
ToLocaleString(n, nan) ==
    IF nan THEN <<"N", "a", "N">>
    ELSE IF n < 0 THEN <<"-">> \o Grouped(-n)
    ELSE Grouped(n)

\* ({ end, duration = 2, suffix = '' }): the suffix text used by page.tsx.
SuffixOf(sfx) == IF sfx = Undefined THEN << >> ELSE Get(sfx)

\* page.tsx: <span ref={ref}>{count.toLocaleString()}{suffix}</span>
RenderWithSuffix(n, nan, sfx) == ToLocaleString(n, nan) \o SuffixOf(sfx)

\* part_000: <span ref={ref}>{count.toLocaleString()}</span>; CounterProps has
\* no suffix, a suffix passed by a caller is not read.
RenderPlain(n, nan, sfx) == ToLocaleString(n, nan)

\* The text of the Counter's <span>.
Text ==
    IF variant = "page.tsx" THEN RenderWithSuffix(count, countNaN, suffix)
    ELSE RenderPlain(count, countNaN, suffix)

-----------------------------------------------------------------------------
(* Frame timestamps *)

LongestDuration == CHOOSE d \in {DurationOf(x) : x \in Durations} :
                        \A x \in Durations : DurationOf(x) <= d
HorizonFrames == DurationMs(LongestDuration) \div FrameMs + 1
LastStartMs == LastStartFrame * FrameMs
FrameTimes == {k * FrameMs : k \in 1..(LastStartFrame + 1 + HorizonFrames)}

NoTick == [kind |-> "none", timestamp |-> 0, start |-> 0, first |-> FALSE,
           num |-> 0, den |-> 1, before |-> 0, wrote |-> 0, wroteNaN |-> FALSE,
           scheduled |-> FALSE, mounted |-> FALSE]

-----------------------------------------------------------------------------
(* Browser and React facilities *)

\* cancelAnimationFrame(handle): drops the callback if it is still listed.
CancelAnimationFrame(p, af) == IF af = Undefined THEN p ELSE p \ {Get(af)}

\* Variant: the effect returns no cleanup.
CleanupNever(p) == p

\* return () => cancelAnimationFrame(animationFrame);
\* React calls the cleanup of the latest effect run, when that run returned one.
Cleanup(p) == IF hasCleanup THEN CancelAnimationFrame(p, animationFrame) ELSE p

\* Variant: useInView(ref) without once: follows the viewport.
UseInViewLive(cur, inter) == inter

\* useInView(ref, { once: true }): latched once the element has intersected.
UseInView(cur, inter) == cur \/ inter

\* Variant: the effect without its guard.
EffectProceedsAlways(inView) == TRUE

\* if (!isInView) return;
EffectProceeds(inView) == inView

\* Variant: the effect stamps startTime itself (let startTime = performance.now()).
RunEffectStamped(inView) ==
    LET p == Cleanup(pending)
    IN  /\ startTime' = Some(now)
        /\ runTicks' = 0
        /\ firstTick' = 0
        /\ IF EffectProceeds(inView)
           THEN /\ animationFrame' = Some(nextId)
                /\ pending' = p \cup {nextId}
                /\ nextId' = nextId + 1
                /\ hasCleanup' = TRUE
                /\ runs' = runs + 1
           ELSE /\ animationFrame' = Undefined
                /\ pending' = p
                /\ hasCleanup' = FALSE
                /\ UNCHANGED <<nextId, runs>>

\* React runs the effect: cleanup of the previous run, then the body with a
\* fresh closure (let startTime; let animationFrame;).
RunEffect(inView) ==
    LET p == Cleanup(pending)
    IN  /\ startTime' = Undefined
        /\ runTicks' = 0
        /\ firstTick' = 0
        /\ IF EffectProceeds(inView)
           THEN /\ animationFrame' = Some(nextId)   \* requestAnimationFrame(animate)
                /\ pending' = p \cup {nextId}
                /\ nextId' = nextId + 1
                /\ hasCleanup' = TRUE
                /\ runs' = runs + 1
           ELSE /\ animationFrame' = Undefined
                /\ pending' = p
                /\ hasCleanup' = FALSE
                /\ UNCHANGED <<nextId, runs>>

\* const animate = (timestamp) => { ... }, called for the listed callback id.
Animate(id, timestamp) ==
    LET st == CaptureStart(startTime, timestamp)
        progress == Progress(timestamp, Get(st), duration)
        again == LessThanOne(progress)
        value == IF IsNaN(progress) THEN 0 ELSE FloorProduct(progress, end)
    IN  /\ startTime' = st
        /\ count' = value                            \* setCount(Math.floor(...))
        /\ countNaN' = IsNaN(progress)
        /\ IF again
           THEN /\ animationFrame' = Some(nextId)    \* requestAnimationFrame(animate)
                /\ pending' = (pending \ {id}) \cup {nextId}
                /\ nextId' = nextId + 1
           ELSE /\ pending' = pending \ {id}
                /\ UNCHANGED <<animationFrame, nextId>>
        /\ ticks' = ticks + 1
        /\ runTicks' = runTicks + 1
        /\ firstTick' = IF runTicks = 0 THEN timestamp ELSE firstTick
        /\ lateTicks' = IF phase = "unmounted" THEN lateTicks + 1 ELSE lateTicks
        /\ lastTick' = [kind |-> "tick", timestamp |-> timestamp, start |-> Get(st),
                        first |-> (runTicks = 0),
                        num |-> progress.num, den |-> progress.den,
                        before |-> count, wrote |-> value,
                        wroteNaN |-> IsNaN(progress), scheduled |-> again,
                        mounted |-> (phase = "mounted")]

-----------------------------------------------------------------------------
(* Actions *)

\* React flushes the passive effects of the first render.
FlushEffects ==
    /\ phase = "committed"
    /\ phase' = "mounted"
    /\ RunEffect(isInView)
    /\ UNCHANGED <<end, durationProp, intersecting, isInView, count, countNaN, now,
                   propChanges, ticks, lastTick, lateTicks,
                   crossings, visibleAt, others>>

\* The page is scrolled so that the counter's <span> enters the viewport.
ScrollIntoView ==
    /\ ~intersecting
    /\ intersecting' = TRUE
    /\ crossings' = IF isInView /\ crossings < MaxCrossings
                    THEN crossings + 1 ELSE crossings
    /\ UNCHANGED <<end, durationProp, phase, isInView, count, countNaN, startTime,
                   animationFrame, hasCleanup, pending, nextId, now, propChanges,
                   ticks, runs, runTicks, firstTick, lastTick, lateTicks,
                   visibleAt, others>>

\* The page is scrolled so that the <span> leaves the viewport.
ScrollOutOfView ==
    /\ intersecting
    /\ intersecting' = FALSE
    /\ crossings' = IF isInView /\ crossings < MaxCrossings
                    THEN crossings + 1 ELSE crossings
    /\ UNCHANGED <<end, durationProp, phase, isInView, count, countNaN, startTime,
                   animationFrame, hasCleanup, pending, nextId, now, propChanges,
                   ticks, runs, runTicks, firstTick, lastTick, lateTicks,
                   visibleAt, others>>

\* The intersection observer of useInView reports; a changed isInView
\* re-renders the Counter and re-runs the effect (deps [isInView, end, duration]).
ViewportReport ==
    /\ phase = "mounted"
    /\ now <= LastStartMs
    /\ LET v == UseInView(isInView, intersecting)
       IN  /\ v # isInView
           /\ isInView' = v
           /\ RunEffect(v)
           /\ visibleAt' = IF v THEN now ELSE visibleAt
    /\ UNCHANGED <<end, durationProp, phase, intersecting, count, countNaN, now,
                   propChanges, ticks, lastTick, lateTicks,
                   crossings, others>>

\* A display frame with no callback listed.
IdleFrame(ts) ==
    /\ pending = {}
    /\ ts > now
    /\ now' = ts
    /\ UNCHANGED <<end, durationProp, phase, intersecting, isInView, count, countNaN,
                   startTime, animationFrame, hasCleanup, pending, nextId,
                   propChanges, ticks, runs, runTicks, firstTick, lastTick, lateTicks,
                   crossings, visibleAt, others>>

\* A display frame at timestamp ts calls the listed callback id.
Tick(id, ts) ==
    /\ id \in pending
    /\ ts > now
    /\ Falsy(startTime) => ts <= LastStartMs + FrameMs
    /\ now' = ts
    /\ Animate(id, ts)
    /\ UNCHANGED <<end, durationProp, phase, intersecting, isInView, hasCleanup,
                   propChanges, runs, crossings, visibleAt, others>>

\* Variant: the cleanup also resets the displayed value.
UnmountResetting ==
    /\ phase = "mounted"
    /\ phase' = "unmounted"
    /\ pending' = Cleanup(pending)
    /\ hasCleanup' = FALSE
    /\ count' = InitialCount
    /\ UNCHANGED <<end, durationProp, intersecting, isInView, countNaN,
                   startTime, animationFrame, nextId, now, propChanges,
                   ticks, runs, runTicks, firstTick, lastTick, lateTicks,
                   crossings, visibleAt, others>>

\* React unmounts the Counter: the effect's cleanup runs, the observer is dropped.
Unmount ==
    /\ phase = "mounted"
    /\ phase' = "unmounted"
    /\ pending' = Cleanup(pending)
    /\ hasCleanup' = FALSE
    /\ UNCHANGED <<end, durationProp, intersecting, isInView, count, countNaN,
                   startTime, animationFrame, nextId, now, propChanges,
                   ticks, runs, runTicks, firstTick, lastTick, lateTicks,
                   crossings, visibleAt, others>>

\* Variant: deps [isInView, duration], end left out.
DepsChangedWithoutEnd(e, d) == DurationOf(d) # duration

\* }, [isInView, end, duration]): a re-render with props e, d changes a dependency.
DepsChanged(e, d) == e # end \/ DurationOf(d) # duration

\* The parent re-renders the Counter with other props; the effect re-runs
\* when a dependency of [isInView, end, duration] changed.
SetProps(e, d) ==
    /\ phase = "mounted"
    /\ propChanges < MaxPropChanges
    /\ now <= LastStartMs
    /\ <<e, d>> # <<end, durationProp>>
    /\ end' = e
    /\ durationProp' = d
    /\ propChanges' = propChanges + 1
    /\ IF DepsChanged(e, d)
       THEN RunEffect(isInView)
       ELSE UNCHANGED <<startTime, animationFrame, hasCleanup, pending, nextId,
                        runs, runTicks, firstTick>>
    /\ UNCHANGED <<phase, intersecting, isInView, count, countNaN, now,
                   ticks, lastTick, lateTicks,
                   crossings, visibleAt, others>>

-----------------------------------------------------------------------------
(* The landing page around the Counters: navigation links, the scroll
   listener of the navigation bar, the mobile menu and the FAQ items. *)

\* navLinks of each page.
NavLinks(v) ==
    IF v = "page.tsx"
    THEN << <<"F", "e", "a", "t", "u", "r", "e", "s">>,
            <<"H", "o", "w", " ", "I", "t", " ", "W", "o", "r", "k", "s">>,
            <<"W", "h", "o", " ", "I", "t", "'", "s", " ", "F", "o", "r">>,
            <<"C", "o", "n", "t", "a", "c", "t">> >>
    ELSE << <<"F", "e", "a", "t", "u", "r", "e", "s">>,
            <<"H", "o", "w", " ", "I", "t", " ", "W", "o", "r", "k", "s">>,
            <<"S", "c", "r", "e", "e", "n", "s">>,
            <<"P", "r", "i", "c", "i", "n", "g">>,
            <<"F", "A", "Q">>,
            <<"C", "o", "n", "t", "a", "c", "t">> >>

\* The ids of the sections and of the footer each page renders.
SectionIds(v) ==
    IF v = "page.tsx"
    THEN { <<"h", "o", "w", "i", "t", "w", "o", "r", "k", "s">>,
           <<"f", "e", "a", "t", "u", "r", "e", "s">>,
           <<"w", "h", "o", "i", "t", "s", "f", "o", "r">>,
           <<"f", "a", "q">>,
           <<"c", "o", "n", "t", "a", "c", "t">> }
    ELSE { <<"f", "e", "a", "t", "u", "r", "e", "s">>,
           <<"h", "o", "w", "i", "t", "w", "o", "r", "k", "s">>,
           <<"s", "c", "r", "e", "e", "n", "s">>,
           <<"p", "r", "i", "c", "i", "n", "g">>,
           <<"f", "a", "q">>,
           <<"c", "o", "n", "t", "a", "c", "t">> }

UpperCase == <<"A", "B", "C", "D", "E", "F", "G", "H", "I", "J", "K", "L", "M", "N", "O", "P", "Q", "R", "S", "T", "U", "V", "W", "X", "Y", "Z">>
LowerCase == <<"a", "b", "c", "d", "e", "f", "g", "h", "i", "j", "k", "l", "m", "n", "o", "p", "q", "r", "s", "t", "u", "v", "w", "x", "y", "z">>

\* String.prototype.toLowerCase on the letters A-Z.
ToLowerCase(s) ==
    [i \in 1..Len(s) |->
        IF \E k \in 1..Len(UpperCase) : UpperCase[k] = s[i]
        THEN LowerCase[CHOOSE k \in 1..Len(UpperCase) : UpperCase[k] = s[i]]
        ELSE s[i]]

RECURSIVE ReplaceFirst(_, _, _)
\* s.replace(c, r) with a string pattern: only the first occurrence of c.
ReplaceFirst(s, c, r) ==
    IF s = << >> THEN << >>
    ELSE IF Head(s) = c THEN r \o Tail(s)
    ELSE <<Head(s)>> \o ReplaceFirst(Tail(s), c, r)

RECURSIVE ReplaceAll(_, _, _)
\* s.replaceAll(c, r): every occurrence of c.
ReplaceAll(s, c, r) ==
    IF s = << >> THEN << >>
    ELSE IF Head(s) = c THEN r \o ReplaceAll(Tail(s), c, r)
    ELSE <<Head(s)>> \o ReplaceAll(Tail(s), c, r)

\* The characters \s matches that a label can hold.
Whitespace == {" ", "\t", "\n"}

\* s.replace(/\s+/g, ''): every run of whitespace is removed.
RemoveWhitespace(s) == SelectSeq(s, LAMBDA ch : ch \notin Whitespace)

\* `#${...}`
Anchor(t) == <<"#">> \o t

\* href of a link of the desktop navigation.
DesktopHref(v, link) ==
    IF v = "page.tsx"
    THEN Anchor(ReplaceFirst(RemoveWhitespace(ToLowerCase(link)), "'", << >>))
    ELSE Anchor(ReplaceAll(ToLowerCase(link), " ", << >>))

\* href of a link of the mobile menu.
MobileHref(v, link) ==
    IF v = "page.tsx"
    THEN Anchor(ReplaceFirst(RemoveWhitespace(ToLowerCase(link)), "'", << >>))
    ELSE Anchor(ReplaceFirst(ToLowerCase(link), " ", <<"-">>))

\* href of a quick link of the footer.
FooterHref(v, link) ==
    IF v = "page.tsx"
    THEN Anchor(ReplaceFirst(RemoveWhitespace(ToLowerCase(link)), "'", << >>))
    ELSE Anchor(ReplaceFirst(ToLowerCase(link), " ", <<"-">>))

Pages == {"page.tsx", "part_000"}

\* navLinks.map((link) => <a href=...>): the rendered links of each list, by page.
DesktopNav == [v \in Pages |-> [k \in DOMAIN NavLinks(v) |-> DesktopHref(v, NavLinks(v)[k])]]
MobileMenu == [v \in Pages |-> [k \in DOMAIN NavLinks(v) |-> MobileHref(v, NavLinks(v)[k])]]
QuickLinks == [v \in Pages |-> [k \in DOMAIN NavLinks(v) |-> FooterHref(v, NavLinks(v)[k])]]

\* Number of FAQ items followed (each page renders five).
MaxFaqItems == 3
FaqItems == 1..MaxFaqItems

\* Vertical scroll positions of the window, on both sides of the threshold.
ScrollYs == {0, 10, 11, 25}

\* handleScroll: window.scrollY > 10
ScrollThreshold == 10

\* Variant: the bar changes at the threshold itself.
ScrolledFrom(y) == y >= ScrollThreshold

\* () => setScrolled(window.scrollY > 10): the value handleScroll writes.
ScrolledAt(y) == y > ScrollThreshold

\* Variant: the button only opens the menu.
OpenOnly(open) == TRUE

\* setMobileMenuOpen(!mobileMenuOpen), setIsOpen(!isOpen)
Toggle(open) == ~open

\* Variant: an accordion that closes the other items.
ToggleClosingOthers(flags, i) == [j \in DOMAIN flags |-> j = i /\ ~flags[i]]

\* The FAQ items' flags after a click on item i: each FAQItem has its own cell.
ToggleItem(flags, i) == [flags EXCEPT ![i] = Toggle(@)]

\* {isOpen && (<motion.div ...>{answer}</motion.div>)}: the answers rendered.
RenderedAnswers == {i \in FaqItems : isOpen[i]}

\* {mobileMenuOpen && (<motion.div ...>)}: the mobile menu's links are rendered.
MobileMenuRendered == mobileMenuOpen

\* What the landing page's steps leave alone: the Counters.
counters == <<end, durationProp, phase, intersecting, isInView, count, countNaN,
              startTime, animationFrame, hasCleanup, pending, nextId, now,
              propChanges, ticks, runs, runTicks, firstTick, lastTick, lateTicks,
              crossings, visibleAt, variant, suffix, sibling, twin>>

\* The landing page after its first render, the window scrolled to a y in Y.
InitLanding(Y) ==
    /\ pagePhase = "committed"
    /\ scrollY \in Y
    /\ listeners = {}
    /\ scrolled = FALSE
    /\ mobileMenuOpen = FALSE
    /\ isOpen = [i \in FaqItems |-> FALSE]
    /\ hash = << >>
    /\ menuWriter = "mount"
    /\ menuParity = FALSE
    /\ faqParity = [i \in FaqItems |-> FALSE]

\* React flushes the page's effect: window.addEventListener('scroll', handleScroll).
PageFlushEffects ==
    /\ pagePhase = "committed"
    /\ pagePhase' = "mounted"
    /\ listeners' = listeners \cup {"handleScroll"}
    /\ UNCHANGED <<scrollY, scrolled, mobileMenuOpen, isOpen, hash,
                   menuWriter, menuParity, faqParity, counters>>

\* The window is scrolled to y; the 'scroll' event goes to the registered handlers.
ScrollTo(y) ==
    /\ y # scrollY
    /\ scrollY' = y
    /\ scrolled' = IF "handleScroll" \in listeners THEN ScrolledAt(y) ELSE scrolled
    /\ UNCHANGED <<pagePhase, listeners, mobileMenuOpen, isOpen, hash,
                   menuWriter, menuParity, faqParity, counters>>

\* A click on the mobile menu button.
ClickMenuButton ==
    /\ pagePhase # "unmounted"
    /\ mobileMenuOpen' = Toggle(mobileMenuOpen)
    /\ menuWriter' = "button"
    /\ menuParity' = ~menuParity
    /\ UNCHANGED <<pagePhase, scrollY, listeners, scrolled, isOpen, hash,
                   faqParity, counters>>

\* A click on the k-th link of the open mobile menu.
ClickMobileLink(k) ==
    /\ pagePhase # "unmounted"
    /\ MobileMenuRendered
    /\ k \in DOMAIN MobileMenu[variant]
    /\ hash' = MobileMenu[variant][k]
    /\ mobileMenuOpen' = FALSE
    /\ menuWriter' = "mobileLink"
    /\ menuParity' = FALSE
    /\ UNCHANGED <<pagePhase, scrollY, listeners, scrolled, isOpen,
                   faqParity, counters>>

\* A click on the k-th link of the desktop navigation.
ClickDesktopLink(k) ==
    /\ pagePhase # "unmounted"
    /\ k \in DOMAIN DesktopNav[variant]
    /\ hash' = DesktopNav[variant][k]
    /\ UNCHANGED <<pagePhase, scrollY, listeners, scrolled, mobileMenuOpen, isOpen,
                   menuWriter, menuParity, faqParity, counters>>

\* A click on the k-th quick link of the footer.
ClickFooterLink(k) ==
    /\ pagePhase # "unmounted"
    /\ k \in DOMAIN QuickLinks[variant]
    /\ hash' = QuickLinks[variant][k]
    /\ UNCHANGED <<pagePhase, scrollY, listeners, scrolled, mobileMenuOpen, isOpen,
                   menuWriter, menuParity, faqParity, counters>>

\* A click on the question of FAQ item i.
ClickQuestion(i) ==
    /\ pagePhase # "unmounted"
    /\ isOpen' = ToggleItem(isOpen, i)
    /\ faqParity' = [faqParity EXCEPT ![i] = ~@]
    /\ UNCHANGED <<pagePhase, scrollY, listeners, scrolled, mobileMenuOpen, hash,
                   menuWriter, menuParity, counters>>

\* React unmounts the page: window.removeEventListener('scroll', handleScroll).
PageUnmount ==
    /\ pagePhase = "mounted"
    /\ pagePhase' = "unmounted"
    /\ listeners' = listeners \ {"handleScroll"}
    /\ UNCHANGED <<scrollY, scrolled, mobileMenuOpen, isOpen, hash,
                   menuWriter, menuParity, faqParity, counters>>

-----------------------------------------------------------------------------
(* Specifications *)

\* The sibling slot of a Counter that is looked at alone.
NoSibling == [mounted |-> FALSE, end |-> 0, isInView |-> FALSE, count |-> 0,
              startTime |-> Undefined, animationFrame |-> Undefined,
              hasCleanup |-> FALSE, pending |-> {}, requestedAt |-> 0,
              ticks |-> 0]

\* The twin slot of a Counter that is looked at alone.
NoTwin == [phase |-> "none"]

\* The Counter after its first render, with props from E and D, at time t0.
InitCounter(E, D, t0) ==
    /\ end \in E
    /\ durationProp \in D
    /\ phase = "committed"
    /\ intersecting \in BOOLEAN
    /\ isInView = FALSE
    /\ count = InitialCount
    /\ countNaN = FALSE
    /\ startTime = Undefined
    /\ animationFrame = Undefined
    /\ hasCleanup = FALSE
    /\ pending = {}
    /\ nextId = 1
    /\ now = t0
    /\ propChanges = 0
    /\ ticks = 0
    /\ runs = 0
    /\ runTicks = 0
    /\ firstTick = 0
    /\ lastTick = NoTick
    /\ lateTicks = 0
    /\ crossings = 0
    /\ visibleAt = 0

\* The Counter of part_000 as its page uses it: no suffix.
Init ==
    /\ InitCounter(Ends, Durations, FrameMs)
    /\ variant = "part_000"
    /\ suffix = Undefined
    /\ sibling = NoSibling
    /\ twin = NoTwin
    /\ InitLanding({0})

\* The steps of the Counter with frame timestamps drawn from T.
NextAt(T) ==
    \/ FlushEffects
    \/ ScrollIntoView
    \/ ScrollOutOfView
    \/ ViewportReport
    \/ \E ts \in T : IdleFrame(ts)
    \/ \E id \in pending, ts \in T : Tick(id, ts)
    \/ Unmount

\* The Counter as the pages use it: the props are literals and never change.
Next == NextAt(FrameTimes)

Spec == Init /\ [][Next]_vars

\* The Counter under a parent that may pass other props while it is mounted.
NextProps ==
    \/ Next
    \/ \E e \in Ends, d \in Durations : SetProps(e, d)

SpecProps == Init /\ [][NextProps]_vars

-----------------------------------------------------------------------------
(* The second Counter of the page (part_000 renders <Counter end={12847} />
   and <Counter end={284} />).  Each instance has its own useState cell and
   its own effect closure; the two share the browser's frame clock and the
   handles requestAnimationFrame hands out. *)

\* What the sibling's steps leave alone: this instance, its twin and the page.
ownState == <<end, durationProp, phase, intersecting, isInView, count, countNaN,
              startTime, animationFrame, hasCleanup, pending, propChanges,
              ticks, runs, runTicks, firstTick, lastTick, lateTicks,
              crossings, visibleAt, variant, suffix, twin, landing>>

\* animate(timestamp) of the sibling, which requests its next frame as handle h.
SiblingAnimate(c, id, timestamp, h) ==
    LET st == CaptureStart(c.startTime, timestamp)
        progress == Progress(timestamp, Get(st), DurationOf(Undefined))
        again == LessThanOne(progress)
    IN  [c EXCEPT !.startTime = st,
                  !.count = FloorProduct(progress, c.end),
                  !.animationFrame = IF again THEN Some(h) ELSE @,
                  !.pending = IF again THEN (@ \ {id}) \cup {h} ELSE @ \ {id},
                  !.requestedAt = IF again THEN timestamp ELSE @,
                  !.ticks = @ + 1]

\* useInView reports the sibling in view; its effect requests the first frame.
SiblingReport ==
    /\ sibling.mounted
    /\ ~sibling.isInView
    /\ now <= LastStartMs
    /\ sibling' = [sibling EXCEPT !.isInView = TRUE,
                                  !.startTime = Undefined,
                                  !.animationFrame = Some(nextId),
                                  !.pending = {nextId},
                                  !.requestedAt = now,
                                  !.hasCleanup = TRUE]
    /\ nextId' = nextId + 1
    /\ UNCHANGED <<ownState, now>>

\* A frame at timestamp ts calls the sibling's listed callback; ts may be the
\* frame that has just called this instance's callback.
SiblingTick(id, ts) ==
    /\ id \in sibling.pending
    /\ ts >= now
    /\ ts > sibling.requestedAt
    /\ Falsy(sibling.startTime) => ts <= LastStartMs + FrameMs
    /\ now' = ts
    /\ sibling' = SiblingAnimate(sibling, id, ts, nextId)
    /\ nextId' = IF sibling'.pending = {} THEN nextId ELSE nextId + 1
    /\ UNCHANGED ownState

\* React unmounts the sibling: its cleanup cancels its own handle.
SiblingUnmount ==
    /\ sibling.mounted
    /\ sibling' = [sibling EXCEPT
                      !.mounted = FALSE,
                      !.hasCleanup = FALSE,
                      !.pending = IF sibling.hasCleanup
                                  THEN CancelAnimationFrame(@, sibling.animationFrame)
                                  ELSE @]
    /\ UNCHANGED <<ownState, nextId, now>>

\* The dashboard card of part_000: both Counters with their literal props.
InitPage ==
    /\ InitCounter({12847}, {Undefined}, FrameMs)
    /\ variant = "part_000"
    /\ suffix = Undefined
    /\ sibling = [NoSibling EXCEPT !.mounted = TRUE, !.end = 284]
    /\ twin = NoTwin
    /\ InitLanding({0})

\* The page is followed on every second frame of the grid.
PageFrameTimes == {t \in FrameTimes : t % (2 * FrameMs) = 0}

NextPage ==
    \/ NextAt(PageFrameTimes)
    \/ SiblingReport
    \/ \E id \in sibling.pending, ts \in PageFrameTimes : SiblingTick(id, ts)
    \/ SiblingUnmount

SpecPage == InitPage /\ [][NextPage]_vars

\* Either page's Counter, rendered with and without a suffix.
InitRender ==
    /\ InitCounter({284, 12847}, {Undefined, Some(1)}, FrameMs)
    /\ variant \in {"page.tsx", "part_000"}
    /\ suffix \in {Undefined, Some(<<"+">>)}
    /\ sibling = NoSibling
    /\ twin = NoTwin
    /\ InitLanding({0})

SpecRender == InitRender /\ [][Next]_vars

\* Inputs the contract does not exclude: zero and negative targets, zero and
\* negative durations.
EdgeEnds == {-284, -3, 0, 3, 284}
EdgeDurations == {Some(-1), Some(0), Some(1), Undefined}

InitEdge ==
    /\ InitCounter(EdgeEnds, EdgeDurations, FrameMs)
    /\ variant = "part_000"
    /\ suffix = Undefined
    /\ sibling = NoSibling
    /\ twin = NoTwin
    /\ InitLanding({0})

SpecEdge == InitEdge /\ [][Next]_vars

FairSpecEdge == SpecEdge /\ WF_vars(\E id \in pending, ts \in FrameTimes : Tick(id, ts))

\* A frame clock that starts at 0 (a document whose first frame is stamped 0,
\* or a test harness's requestAnimationFrame): no frame has been produced yet.
InitZero ==
    /\ InitCounter({3, 284}, {Undefined, Some(1)}, -1)
    /\ variant = "part_000"
    /\ suffix = Undefined
    /\ sibling = NoSibling
    /\ twin = NoTwin
    /\ InitLanding({0})

NextZero == NextAt(FrameTimes \cup {0})

SpecZero == InitZero /\ [][NextZero]_vars

\* A landing page with one of its Counters: the visitor scrolls, clicks the
\* menu button, the links and the FAQ questions while the Counter animates.
InitLandingPage ==
    /\ InitCounter({3}, {Some(1)}, FrameMs)
    /\ variant \in Pages
    /\ suffix = Undefined
    /\ sibling = NoSibling
    /\ twin = NoTwin
    /\ InitLanding({0})

NextLanding ==
    \/ FlushEffects
    \/ ViewportReport
    \/ \E id \in pending, ts \in PageFrameTimes : Tick(id, ts)
    \/ Unmount
    \/ PageFlushEffects
    \/ \E y \in ScrollYs : ScrollTo(y)
    \/ ClickMenuButton
    \/ \E k \in DOMAIN MobileMenu[variant] : ClickMobileLink(k)
    \/ \E k \in DOMAIN DesktopNav[variant] : ClickDesktopLink(k)
    \/ \E k \in DOMAIN QuickLinks[variant] : ClickFooterLink(k)
    \/ \E i \in FaqItems : ClickQuestion(i)
    \/ PageUnmount

SpecLanding == InitLandingPage /\ [][NextLanding]_vars

-----------------------------------------------------------------------------
(* The Counter of page.tsx as a second machine, given the same props and the
   same events as the Counter above: the same effect flush, the same
   observer report, the same frames and the same unmount.  It has its own
   document, hence its own callback list and handles. *)

\* The page.tsx Counter after its first render with props e, d and sfx.
TwinOf(e, d, sfx) ==
    [phase |-> "committed", end |-> e, durationProp |-> d, suffix |-> sfx,
     isInView |-> FALSE, count |-> InitialCount, countNaN |-> FALSE,
     startTime |-> Undefined, animationFrame |-> Undefined,
     hasCleanup |-> FALSE, pending |-> {}, nextId |-> 1, now |-> now]

\* return () => cancelAnimationFrame(animationFrame);
TwinCleanup(c) ==
    IF c.hasCleanup THEN CancelAnimationFrame(c.pending, c.animationFrame)
    ELSE c.pending

\* useEffect(() => { if (!isInView) return; ... }, [isInView, end, duration])
TwinRunEffect(c, inView) ==
    IF EffectProceeds(inView)
    THEN [c EXCEPT !.isInView = inView,
                   !.startTime = Undefined,
                   !.animationFrame = Some(c.nextId),
                   !.pending = TwinCleanup(c) \cup {c.nextId},
                   !.nextId = @ + 1,
                   !.hasCleanup = TRUE]
    ELSE [c EXCEPT !.isInView = inView,
                   !.startTime = Undefined,
                   !.animationFrame = Undefined,
                   !.pending = TwinCleanup(c),
                   !.hasCleanup = FALSE]

\* Variant: animate takes a new startTime on every call.
TwinAnimateRestamped(c, id, timestamp) ==
    LET progress == Progress(timestamp, timestamp, DurationOf(c.durationProp))
        again == LessThanOne(progress)
    IN  [c EXCEPT !.startTime = Some(timestamp),
                  !.count = IF IsNaN(progress) THEN 0 ELSE FloorProduct(progress, c.end),
                  !.countNaN = IsNaN(progress),
                  !.animationFrame = IF again THEN Some(c.nextId) ELSE @,
                  !.pending = IF again THEN (@ \ {id}) \cup {c.nextId} ELSE @ \ {id},
                  !.nextId = IF again THEN @ + 1 ELSE @]

\* const animate = (timestamp: number) => { ... } of page.tsx.
TwinAnimate(c, id, timestamp) ==
    LET st == CaptureStart(c.startTime, timestamp)
        progress == Progress(timestamp, Get(st), DurationOf(c.durationProp))
        again == LessThanOne(progress)
    IN  [c EXCEPT !.startTime = st,
                  !.count = IF IsNaN(progress) THEN 0 ELSE FloorProduct(progress, c.end),
                  !.countNaN = IsNaN(progress),
                  !.animationFrame = IF again THEN Some(c.nextId) ELSE @,
                  !.pending = IF again THEN (@ \ {id}) \cup {c.nextId} ELSE @ \ {id},
                  !.nextId = IF again THEN @ + 1 ELSE @]

\* <span ref={ref}>{count.toLocaleString()}{suffix}</span> of the twin.
TwinText == RenderWithSuffix(twin.count, twin.countNaN, twin.suffix)

\* The twin has been given every event this Counter has been given.
InSync == twin.phase = phase /\ twin.isInView = isInView /\ twin.now = now

\* What the twin's steps leave alone.
notTwin == <<end, durationProp, phase, intersecting, isInView, count, countNaN,
             startTime, animationFrame, hasCleanup, pending, nextId, now,
             propChanges, ticks, runs, runTicks, firstTick, lastTick, lateTicks,
             crossings, visibleAt, variant, suffix, sibling, landing>>

\* React flushes the twin's effects of the first render.
TwinFlushEffects ==
    /\ twin.phase = "committed"
    /\ phase = "mounted"
    /\ twin' = [TwinRunEffect(twin, twin.isInView) EXCEPT !.phase = "mounted"]
    /\ UNCHANGED notTwin

\* The twin's observer reports the same viewport; a changed isInView re-runs
\* the effect.
TwinViewportReport ==
    /\ twin.phase = "mounted"
    /\ phase = "mounted"
    /\ twin.isInView # isInView
    /\ LET v == UseInView(twin.isInView, intersecting)
       IN  /\ v # twin.isInView
           /\ twin' = TwinRunEffect(twin, v)
    /\ UNCHANGED notTwin

\* The frame stamped now reaches the twin's document: its listed callback,
\* if any, is called.
TwinFrame ==
    /\ twin.phase # "none"
    /\ twin.now < now
    /\ twin' = IF twin.pending = {}
               THEN [twin EXCEPT !.now = now]
               ELSE LET id == CHOOSE h \in twin.pending : TRUE
                    IN  [TwinAnimate(twin, id, now) EXCEPT !.now = now]
    /\ UNCHANGED notTwin

\* React unmounts the twin.
TwinUnmount ==
    /\ twin.phase = "mounted"
    /\ phase = "unmounted"
    /\ twin' = [twin EXCEPT !.phase = "unmounted",
                            !.pending = TwinCleanup(twin),
                            !.hasCleanup = FALSE]
    /\ UNCHANGED notTwin

\* Both Counters with the same props; the twin's suffix is empty, by default
\* or passed as ''.
InitTwin ==
    /\ InitCounter({-3, 284}, {Some(0), Some(1), Undefined}, FrameMs)
    /\ variant = "part_000"
    /\ suffix = Undefined
    /\ sibling = NoSibling
    /\ twin \in {TwinOf(end, durationProp, sfx) : sfx \in {Undefined, Some(<< >>)}}
    /\ InitLanding({0})

\* This Counter takes a step when the twin has caught up; the twin then
\* takes the same event.
NextTwin ==
    \/ InSync /\ Next
    \/ TwinFlushEffects
    \/ TwinViewportReport
    \/ TwinFrame
    \/ TwinUnmount

SpecTwin == InitTwin /\ [][NextTwin]_vars

\* Every listed frame callback is eventually called (the browser keeps
\* producing frames while the page is shown).
FairSpec == Spec /\ WF_vars(\E id \in pending, ts \in FrameTimes : Tick(id, ts))

-----------------------------------------------------------------------------
(* Vocabulary of the properties *)

Mounted == phase = "mounted"
Unmounted == phase = "unmounted"
HasTicked == lastTick.kind = "tick"

\* Time between the first tick of the current run and the latest tick.
Elapsed == lastTick.timestamp - firstTick

\* floor(min(e / ms, 1) * target), written out on integers.
ExpectedValue(e, ms, target) ==
    IF e >= ms THEN target ELSE (e * target) \div ms

\* The latest tick was the terminal tick of its run.
TerminalTickRan == HasTicked /\ Elapsed >= DurationMs(duration)

\* State Settled of the counter's state machine.
Settled == Mounted /\ HasTicked /\ ~lastTick.scheduled /\ pending = {} /\ count = end

-----------------------------------------------------------------------------
(* C1..C10 *)

\* C1: for a non-negative target and a positive duration, once a tick has run
\* with elapsed time >= duration (the terminal tick), count equals end exactly.
C1_TerminalTickWritesTarget ==
    (end >= 0 /\ duration > 0 /\ TerminalTickRan) => (count = end /\ ~countNaN)

\* A terminal tick that came strictly later than the duration.
C1_Witness ==
    /\ end = 12847
    /\ HasTicked
    /\ Elapsed > DurationMs(duration)
    /\ count = end

\* C2: every tick of a run writes floor(progress * end) with
\* progress = min((timestamp - first tick's timestamp) / (duration * 1000), 1),
\* and count holds no other value than the one the latest tick wrote.
C2_TickWritesFloorOfProgress ==
    HasTicked =>
        /\ lastTick.wrote = ExpectedValue(Elapsed, DurationMs(duration), end)
        /\ ~lastTick.wroteNaN
        /\ count = lastTick.wrote

\* A later tick of a run that wrote a truncated value.
C2_Witness ==
    /\ HasTicked
    /\ ~lastTick.first
    /\ end = 12847
    /\ lastTick.wrote = 9635

\* C3: while the counter has never been reported in view, no tick is pending,
\* no tick has run and count is still its initial value 0.
C3_NoStartBeforeVisible ==
    ~isInView => (pending = {} /\ ticks = 0 /\ runs = 0 /\ count = InitialCount)

\* Mounted for several frames without having been in view.
C3_Witness ==
    /\ Mounted
    /\ ~isInView
    /\ ~intersecting
    /\ now = LastStartMs

\* C4: with end and duration fixed, isInView becomes true at the first
\* visibility report, which starts the one run, and never becomes false again;
\* leaving and re-entering the viewport starts no second run and does not
\* reset count or startTime.
C4_StartsExactlyOnce ==
    [][ /\ (~isInView /\ isInView') => (runs = 0 /\ runs' = 1 /\ pending' # {})
        /\ isInView => ( /\ isInView'
                        /\ runs' = runs
                        /\ (ticks' = ticks => (count' = count /\ startTime' = startTime)) )
      ]_vars

\* A running counter that has left the viewport and entered it again.
C4_Witness ==
    /\ Mounted
    /\ isInView
    /\ intersecting
    /\ crossings >= 2
    /\ runs = 1
    /\ pending # {}
    /\ count > 0

\* C5: after an unmount (before visibility, between two ticks or after
\* settlement) no tick is pending, none executes, and count is not written.
C5_UnmountCancelsTick ==
    /\ [](Unmounted => (pending = {} /\ lateTicks = 0))
    /\ [][Unmounted => count' = count]_vars

\* Unmounted between two ticks of a running animation.
C5_Witness ==
    /\ Unmounted
    /\ HasTicked
    /\ lastTick.scheduled
    /\ count > 0
    /\ count < end
    /\ now > lastTick.timestamp

\* C6 as stated: once settled, no later event of the mounted instance
\* schedules a tick or changes count.
C6_SettledAbsorbing ==
    [][(Settled /\ Mounted') => (pending' = {} /\ count' = count)]_vars

\* C6 amended: once settled, no later event under which end and duration keep
\* their values schedules a tick or changes count.
C6_SettledAbsorbingFixedProps ==
    [][(Settled /\ Mounted' /\ end' = end /\ duration' = duration)
          => (pending' = {} /\ count' = count /\ runs' = runs /\ Settled')]_vars

\* Settled, and viewport crossings and frames have happened since.
C6_Witness ==
    /\ Settled
    /\ end = 284
    /\ crossings >= 2
    /\ now > lastTick.timestamp

\* C7: for a non-negative target, a tick never writes less than the tick
\* before it wrote.
C7_Monotone ==
    (end >= 0 /\ HasTicked) => lastTick.wrote >= lastTick.before

\* Two consecutive ticks that wrote increasing values.
C7_Witness ==
    /\ HasTicked
    /\ ~lastTick.first
    /\ lastTick.before > 0
    /\ lastTick.wrote > lastTick.before
    /\ lastTick.wrote < end

\* C8: for a non-negative target and a positive duration, 0 <= count <= end in
\* every state; with end = 0, count is 0 in every state.
C8_CountInRange ==
    (end >= 0 /\ duration > 0) =>
        /\ ~countNaN
        /\ count \in 0..end
        /\ end = 0 => count = 0

\* Target 0 at settlement.
C8_Witness ==
    /\ end = 0
    /\ Settled
    /\ ticks >= 2
    /\ count = 0

\* C9: a counter that has become visible eventually settles, unless it is
\* unmounted (every listed frame callback is eventually called).
C9_EventuallySettles ==
    (Mounted /\ isInView) ~> (Settled \/ Unmounted)

\* Settled after a run of several ticks.
C9_Witness ==
    /\ Settled
    /\ isInView
    /\ end = 100
    /\ ticks >= 3

\* C10: without a duration prop the animation takes 2000 ms: for end = 12847 a
\* tick at elapsed 1000 ms writes 6423, every tick at elapsed < 2000 ms
\* schedules another, a tick at elapsed >= 2000 ms writes 12847 and schedules none.
C10_DefaultDuration ==
    (durationProp = Undefined /\ end = 12847 /\ HasTicked) =>
        /\ Elapsed = 1000 => lastTick.wrote = 6423
        /\ Elapsed < 2000 => lastTick.scheduled
        /\ Elapsed >= 2000 => (lastTick.wrote = 12847 /\ ~lastTick.scheduled)

\* The tick at half of the default duration.
C10_Witness ==
    /\ durationProp = Undefined
    /\ end = 12847
    /\ HasTicked
    /\ Elapsed = 1000
    /\ count = 6423
    /\ pending # {}

-----------------------------------------------------------------------------
(* C11..C20 *)

\* C11: the counter accepts an optional suffix and in every state the rendered
\* text is the formatted count immediately followed by the suffix passed; with
\* suffix "+" and end 284 the text at settlement is "284+".
C11_TextIsCountThenSuffix ==
    /\ Text = ToLocaleString(count, countNaN) \o SuffixOf(suffix)
    /\ (Settled /\ end = 284 /\ suffix = Some(<<"+">>))
          => Text = <<"2", "8", "4", "+">>

\* C11 restricted to the Counter of page.tsx, where it holds.
C11_TextOfPageTsx ==
    variant = "page.tsx" =>
        /\ Text = ToLocaleString(count, countNaN) \o SuffixOf(suffix)
        /\ (Settled /\ end = 284 /\ suffix = Some(<<"+">>))
              => Text = <<"2", "8", "4", "+">>
        /\ (Settled /\ end = 12847 /\ suffix = Undefined)
              => Text = <<"1", "2", ",", "8", "4", "7">>

\* C12: the tick callback of a Counter instance is the only writer of that
\* instance's count: visibility events, unmount, requesting and cancelling
\* frames and the ticks of the other instance of the page leave it unchanged.
C12_OnlyOwnTickWrites ==
    [][ /\ (count' # count \/ countNaN' # countNaN) => ticks' = ticks + 1
        /\ sibling'.count # sibling.count => sibling'.ticks = sibling.ticks + 1
      ]_vars

\* Both counters of the page are running, each with its own value.
C12_Witness ==
    /\ end = 12847
    /\ sibling.end = 284
    /\ ticks >= 2
    /\ sibling.ticks >= 2
    /\ count > 0
    /\ sibling.count > 0
    /\ count # sibling.count
    /\ pending # {}
    /\ sibling.pending # {}

C13_NegativeDurationReschedules ==
    (duration < 0 /\ HasTicked) => (lastTick.scheduled /\ lastTick.num <= 0)

\* What the code does with duration 0: the first tick divides 0 by 0, writes
\* NaN and requests no further frame.
C13_ZeroDurationWritesNaN ==
    (duration = 0 /\ HasTicked) => (countNaN /\ ~lastTick.scheduled /\ ticks = 1)

\* C14: startTime is captured exactly once per run, on the first tick; no
\* later tick of the run changes it, whatever the first tick's timestamp,
\* 0 included.
C14_StartCapturedOnce ==
    [][ /\ (runTicks = 0 /\ ticks' = ticks + 1) => startTime' = Some(now')
        /\ (runTicks >= 1 /\ ticks' = ticks + 1) => startTime' = startTime
      ]_vars

\* C15 as stated: elapsed time is measured from the moment the counter was
\* first reported visible, so a first frame t ms after visibility writes
\* floor(min(t / durationMs, 1) * end).
C15_ElapsedSinceVisibility ==
    HasTicked =>
        lastTick.wrote =
            ExpectedValue(lastTick.timestamp - visibleAt, DurationMs(duration), end)

\* C15 amended: startTime is the timestamp of the first frame after the
\* visibility report; that frame writes 0 however late it comes, and every
\* later frame writes floor(min(t / durationMs, 1) * end) for t measured from it.
C15_ElapsedSinceFirstTick ==
    HasTicked =>
        /\ startTime = Some(firstTick)
        /\ firstTick > visibleAt
        /\ lastTick.first => lastTick.wrote = 0
        /\ lastTick.wrote =
              ExpectedValue(lastTick.timestamp - Get(startTime), DurationMs(duration), end)

\* A first frame that fires a second or more after the visibility report.
C15_Witness ==
    /\ HasTicked
    /\ lastTick.first
    /\ lastTick.timestamp - visibleAt >= 1000
    /\ end = 12847
    /\ count = 0

\* C16: after each tick of a mounted counter a next tick is pending if and
\* only if that tick's progress was < 1: a tick with progress < 1 requests
\* exactly one frame, any other tick requests none.
C16_ReschedulesIffBelowOne ==
    [][ (ticks' = ticks + 1 /\ Mounted) =>
          LET below == /\ lastTick'.den # 0
                       /\ lastTick'.num < lastTick'.den
                       /\ duration > 0 =>
                            lastTick'.timestamp - firstTick' < DurationMs(duration)
              requested == IF below THEN 1 ELSE 0
          IN  /\ (pending' # {}) <=> below
              /\ Cardinality(pending') = requested
              /\ nextId' = nextId + requested
              /\ (duration > 0 /\ lastTick'.timestamp - firstTick' >= DurationMs(duration))
                    => pending' = {}
      ]_vars

\* A run that went through ticks below 1 and ended on a tick with progress 1.
C16_Witness ==
    /\ Mounted
    /\ HasTicked
    /\ ticks >= 3
    /\ lastTick.num = lastTick.den
    /\ pending = {}
    /\ nextId = 4

\* C17 as stated: for every integer target and every positive duration, every
\* tick before the terminal one writes a value strictly less than the target.
C17_BelowTargetBeforeTerminal ==
    (duration > 0 /\ HasTicked /\ lastTick.scheduled) => lastTick.wrote < end

\* C17 amended: for every positive target and every positive duration, every
\* tick before the terminal one writes a value strictly less than the target;
\* for a zero or negative target it writes a value >= the target.
C17_BelowPositiveTargetBeforeTerminal ==
    (duration > 0 /\ HasTicked /\ lastTick.scheduled) =>
        /\ end > 0 => lastTick.wrote < end
        /\ end <= 0 => lastTick.wrote >= end

\* The tick before the terminal one, at three quarters of the duration.
C17_Witness ==
    /\ HasTicked
    /\ lastTick.scheduled
    /\ duration > 0
    /\ end = 3
    /\ lastTick.wrote = 2

\* C18: a negative target is animated by the same rule: every tick writes
\* floor(progress * end), the written values stay within [end, 0], and the
\* terminal tick leaves count = end exactly.
C18_NegativeTarget ==
    (end < 0 /\ duration > 0 /\ HasTicked) =>
        /\ lastTick.wrote = ExpectedValue(Elapsed, DurationMs(duration), end)
        /\ count = lastTick.wrote
        /\ ~countNaN
        /\ count \in end..0
        /\ TerminalTickRan => count = end

\* Half way to -3: floor(-1.5) = -2.
C18_Witness ==
    /\ end = -3
    /\ HasTicked
    /\ lastTick.scheduled
    /\ count = -2

\* C19: after any sequence of mount, visibility, tick, change of end or
\* duration, and unmount, at most one animation-frame callback is listed for
\* the counter, and it is the one whose handle the effect's closure holds.
C19_AtMostOnePending ==
    /\ Cardinality(pending) <= 1
    /\ pending # {} => (hasCleanup /\ pending = {Get(animationFrame)})

\* The props changed while a frame was listed: the effect re-ran, the frame of
\* the old chain is cancelled and the new chain's first frame is listed.
C19_Witness ==
    /\ propChanges >= 1
    /\ runs = 2
    /\ runTicks = 0
    /\ HasTicked
    /\ lastTick.scheduled
    /\ Cardinality(pending) = 1

\* C20: a change of end or duration while the counter is mounted and visible
\* starts a new run with a fresh startTime, and whenever the counter is
\* quiescent (visible, mounted, no tick pending) with a positive duration,
\* count equals the current end.
C20_RestartsOnPropChange ==
    /\ []((Mounted /\ isInView /\ pending = {} /\ duration > 0)
             => (count = end /\ ~countNaN))
    /\ [][(Mounted /\ isInView /\ (end' # end \/ duration' # duration))
             => /\ startTime' = Undefined
                /\ runs' = runs + 1
                /\ Cardinality(pending') = 1
                /\ pending' \cap pending = {}
         ]_vars

\* A second run, started by a change of props, has settled on the new target.
C20_Witness ==
    /\ propChanges >= 1
    /\ runs = 2
    /\ Settled
    /\ ticks >= 4
    /\ end = 3
    /\ count = 3

\* Vocabulary of the landing page claims.
LinkClicked == hash # << >>
AnchorsOf == [v \in Pages |-> {Anchor(id) : id \in SectionIds(v)}]
SingleWord == [v \in Pages |-> {k \in DOMAIN NavLinks(v) :
                                   \A i \in 1..Len(NavLinks(v)[k]) : NavLinks(v)[k][i] # " "}]

\* C21: for every label in navLinks, the href of the desktop navigation, of
\* the mobile menu and of the footer quick links is the same string, and it
\* is '#' followed by the id of a section (or the footer) the page renders;
\* so a click on any of the links leaves the location hash at such an anchor.
C21_HrefsAgree ==
    /\ \A k \in DOMAIN DesktopNav[variant] :
          /\ DesktopNav[variant][k] = QuickLinks[variant][k]
          /\ DesktopNav[variant][k] = MobileMenu[variant][k]
          /\ DesktopNav[variant][k] \in AnchorsOf[variant]
    /\ LinkClicked => hash \in AnchorsOf[variant]

\* C21 holds of page.tsx, whose three link lists use the same expression.
C21_HrefsOfPageTsx == variant = "page.tsx" => C21_HrefsAgree

\* On part_000 the hrefs of the labels without a space agree, and the desktop
\* hrefs all name a rendered section.
C21_PartSingleWordLabels ==
    \A k \in DOMAIN DesktopNav[variant] :
        /\ DesktopNav[variant][k] \in AnchorsOf[variant]
        /\ k \in SingleWord[variant]
              => /\ DesktopNav[variant][k] = QuickLinks[variant][k]
                 /\ DesktopNav[variant][k] = MobileMenu[variant][k]

\* A click on "How It Works" in the mobile menu of part_000.
C21_ClickedHowItWorks ==
    /\ variant = "part_000"
    /\ menuWriter = "mobileLink"
    /\ hash = <<"#", "h", "o", "w", "-", "i", "t", " ", "w", "o", "r", "k", "s">>

\* C22: scrolled is false at mount; after every scroll event delivered while
\* the page is mounted it equals (window.scrollY > 10), so 10 gives false and
\* 11 gives true; after the unmount the listener is removed and scroll events
\* no longer write the flag.
C22_ScrolledFollowsScrollY ==
    /\ [](pagePhase = "committed" => ~scrolled)
    /\ [][(pagePhase = "mounted" /\ scrollY' # scrollY)
             => /\ scrolled' = (scrollY' > 10)
                /\ scrollY' = 10 => ~scrolled'
                /\ scrollY' = 11 => scrolled'
         ]_vars
    /\ [](pagePhase = "unmounted" => listeners = {})
    /\ [][pagePhase = "unmounted" => scrolled' = scrolled]_vars

\* The flag was set by a scroll event while mounted, and a scroll back to 10
\* after the unmount did not clear it.
C22_Witness ==
    /\ pagePhase = "unmounted"
    /\ scrolled
    /\ scrollY = 10

\* C23: the mobile menu is closed at mount; a click on the menu button
\* inverts mobileMenuOpen; a click on a link of the open mobile menu closes
\* it; scroll events, desktop and footer link clicks, FAQ clicks and counter
\* ticks leave it alone; so the menu is open iff the button was clicked an odd
\* number of times since the last mobile link click or the mount.
C23_MenuOpenIffOddClicks ==
    /\ [](mobileMenuOpen = menuParity)
    /\ [](menuWriter = "mount" => ~mobileMenuOpen)
    /\ [](menuWriter = "mobileLink" => ~mobileMenuOpen)
    /\ [][menuParity' # menuParity /\ menuWriter' = "button"
             => mobileMenuOpen' = ~mobileMenuOpen]_vars
    /\ [][(\/ scrollY' # scrollY
           \/ isOpen' # isOpen
           \/ ticks' # ticks
           \/ count' # count
           \/ pagePhase' # pagePhase
           \/ \E k \in DOMAIN DesktopNav[variant] : ClickDesktopLink(k)
           \/ \E k \in DOMAIN QuickLinks[variant] : ClickFooterLink(k))
             => mobileMenuOpen' = mobileMenuOpen]_vars

\* The menu was opened by the button and closed by a click on its third
\* link, after scrolling, an FAQ click and a counter tick.
C23_Witness ==
    /\ ~mobileMenuOpen
    /\ menuWriter = "mobileLink"
    /\ variant = "page.tsx"
    /\ hash = MobileMenu[variant][3]
    /\ scrolled
    /\ isOpen[1]
    /\ ticks >= 1

\* C24: every FAQ item starts closed and has its own isOpen flag: a click on
\* one item's question inverts that item's flag and leaves the others
\* unchanged, so an item is open iff it was clicked an odd number of times
\* (two clicks restore it) and any subset can be open; the answer is rendered
\* iff the item's flag is true.
C24_FaqItemsIndependent ==
    /\ [](\A i \in FaqItems : isOpen[i] = faqParity[i])
    /\ [](RenderedAnswers = {i \in FaqItems : faqParity[i]})
    /\ [][\A i \in FaqItems :
             faqParity'[i] # faqParity[i]
                => /\ isOpen'[i] = ~isOpen[i]
                   /\ \A j \in FaqItems \ {i} : isOpen'[j] = isOpen[j]
         ]_vars
    /\ [][faqParity' = faqParity => isOpen' = isOpen]_vars

\* The first and the last item are open, the one between them is closed, with
\* the menu open and the bar scrolled.
C24_Witness ==
    /\ RenderedAnswers = {1, MaxFaqItems}
    /\ MaxFaqItems > 2
    /\ mobileMenuOpen
    /\ scrolled

\* C25: given the same end and duration and the same sequence of visibility,
\* frame and unmount events, the page.tsx Counter with an empty suffix and
\* the part_000 Counter display the same values and make the same schedule
\* and cancel decisions (same handles requested, same callbacks listed).
C25_SameStateMachine ==
    InSync =>
       /\ twin.count = count
       /\ twin.countNaN = countNaN
       /\ TwinText = Text
       /\ twin.startTime = startTime
       /\ twin.pending = pending
       /\ twin.animationFrame = animationFrame
       /\ twin.nextId = nextId
       /\ twin.hasCleanup = hasCleanup

\* Both Counters have run to the target through an intermediate value, the
\* twin with suffix '' passed explicitly.
C25_Witness ==
    /\ InSync
    /\ variant = "part_000"
    /\ twin.suffix = Some(<< >>)
    /\ runTicks >= 3
    /\ twin.count = 284
    /\ twin.pending = {}
    /\ lastTick.before > 0
    /\ lastTick.before < 284

\* The twin's pending frame was cancelled by the unmount, as this Counter's was.
C25_CancelledAlike ==
    /\ InSync
    /\ phase = "unmounted"
    /\ twin.pending = {}
    /\ twin.animationFrame # Undefined
    /\ twin.count < twin.end
    /\ twin.count > 0

=============================================================================
